---- MODULE Spec2Model ----
(***************************************************************************)
(* Model of the betrecorder polling scripts:                               *)
(*   - BetfairAPI.poll_market_book (src/src/betfair_api.py), driven by     *)
(*     poll_tick.main;                                                     *)
(*   - BetfairAPI.poll_new_events with _load_known_event_ids and           *)
(*     _save_known_event_ids, driven by poll_events.main;                  *)
(*   - log_market_data / handle_session_error of the InfluxDB script       *)
(*     (src/test_betfair_racing_influx_copy.py), and that script's main;   *)
(*   - main and log_market_data of the file-variant script                 *)
(*     (src/tests/test_betfair_racing_polling.py);                         *)
(*   - the start-up of the scripts: configuration and BetfairAPI().        *)
(* One behaviour follows one script; `script` says which.  The remote      *)
(* service, the file system, the operator (SIGINT) and process crashes     *)
(* are the environment and are nondeterministic.                           *)
(***************************************************************************)
EXTENDS Integers, Sequences, FiniteSets, TLC

\* ---------------------------------------------------------------- bounds
\* Number of remote fetches (list_market_book / list_events) per behaviour.
MaxFetches == 2
\* Number of process starts of poll_events (1 = no restart).
MaxRuns == 2
\* Longest list of events one list_events / fetch_events call returns.
MaxEvents == 2
\* Distinct values of the market-book payload field x.
MaxX == 2
\* Longest catalogue one list_market_catalogue call returns.
MaxMarkets == 2
\* Largest total_matched of a catalogue entry.
MaxMatched == 2

\* ------------------------------------------------------------ value sets
Scripts == {"poll_tick", "poll_events", "log_market_data", "influx_main",
            "polling_main", "collect_context"}

\* Scripts whose main constructs BetfairAPI; log_market_data is a function
\* that is handed a logged-in api object, collect_context has no api.
Processes == Scripts \ {"log_market_data", "collect_context"}

EventIds == {"E1", "E2", "E3"}

\* vars(market_books[0]): the attribute mapping of a freshly parsed
\* MarketBook.  It has no "timestamp" key: that key is added by the loop.
Payloads == {[x |-> v] : v \in 1..MaxX}

\* Python None for last_data.
None == [none |-> TRUE]

VARIABLES
    script,            \* which entry point this behaviour runs
    pc,                \* position of the script
    now,               \* wall clock, in sleeps
    session,           \* remote session: "valid", "expired", "closed"
    lastCall,          \* last call made on api.client and its outcome
    lastLog,           \* last message the running loop wrote to the log
    fetches,           \* calls of list_market_book / list_events so far
    logins,            \* calls of client.login so far
    logouts,           \* calls of BetfairAPI.logout so far
    market_books,      \* poll_market_book / log_market_data: last fetch result
    last_data,         \* poll_market_book: last recorded snapshot or None
    output_file,       \* lines of the output file, oldest first
    current_events,    \* poll_new_events: ids returned by the last list_events
    new_events,        \* poll_new_events: ids selected for logging this tick
    known_event_ids,   \* poll_new_events: in-memory known set
    known_file,        \* content of known_events.json
    loaded_ids,        \* poll_new_events: value _load_known_event_ids returned
    runs,              \* process starts of poll_events
    terminate_event,   \* InfluxDB script: the global threading.Event
    market_start_time, \* log_market_data: parameter, 0 stands for None
    points,            \* log_market_data: points written to InfluxDB
    events_left,       \* main: events the for loop has not reached
    log_thread,        \* InfluxDB main: the Thread object of the current event
    config,            \* which required configuration value is missing
    start_time,        \* file-variant log_market_data: local, 0 is None
    event_start_time,  \* poll_markets_for_event: event.event.open_date, minutes
    markets,           \* poll_markets_for_event: the fetched catalogue
    top_market,        \* InfluxDB main: value of poll_markets_for_event
    cert_dir           \* collect_context: the directory args.cert_dir names

vars == <<script, pc, now, session, lastCall, lastLog, fetches, logins, logouts,
          market_books, last_data, output_file, current_events, new_events,
          known_event_ids, known_file, loaded_ids, runs, terminate_event,
          market_start_time, points, events_left, log_thread, config,
          start_time, event_start_time, markets, top_market, cert_dir>>

sessionVars == <<session, lastCall, lastLog, fetches, logins, logouts>>
tickVars == <<market_books, last_data>>
eventVars == <<current_events, new_events, known_event_ids, known_file,
               loaded_ids, runs>>
influxVars == <<terminate_event, market_start_time, points>>
mainVars == <<events_left, log_thread, config, start_time>>
catalogueVars == <<event_start_time, markets, top_market>>

\* ------------------------------------------------------- remote service
\* Outcomes of one fetch, given the state of the session.  A fetch on a
\* session that is not valid fails with an authorization (403) error.
FetchOutcomes(s) ==
    IF s = "valid" THEN {"fetch_ok", "fetch_empty", "fetch_err"}
    ELSE {"fetch_403"}

\* The session expires on the server side at any time.
SessionExpires ==
    /\ session = "valid"
    /\ pc \in {"pmb_top", "pmb_sleep", "pne_top", "pne_sleep",
               "lmd_top", "lmd_sleep", "flmd_top", "flmd_sleep"}
    /\ session' = "expired"
    /\ UNCHANGED <<cert_dir, catalogueVars>>
    /\ UNCHANGED <<script, pc, now, lastCall, lastLog, fetches, logins,
                   logouts, output_file>>
    /\ UNCHANGED <<tickVars, eventVars, influxVars>>
    /\ UNCHANGED mainVars

\* Variant in which a failure of client.logout() reaches the caller.
Logout_Propagates(next) ==
    /\ logouts' = logouts + 1
    /\ \E ok \in BOOLEAN :
          /\ lastCall' = IF ok THEN "logout_ok" ELSE "logout_fail"
          /\ session' = IF ok THEN "closed" ELSE session
          /\ pc' = IF ok THEN next ELSE "raised"
    /\ UNCHANGED <<cert_dir, catalogueVars>>
    /\ UNCHANGED <<script, now, lastLog, fetches, logins, output_file>>
    /\ UNCHANGED <<tickVars, eventVars, influxVars>>
    /\ UNCHANGED mainVars

\* BetfairAPI.logout: client.logout() succeeds or raises; both are swallowed.
Logout(next) ==
    /\ logouts' = logouts + 1
    /\ \E ok \in BOOLEAN :
          /\ lastCall' = IF ok THEN "logout_ok" ELSE "logout_fail"
          /\ session' = IF ok THEN "closed" ELSE session
    /\ pc' = next
    /\ UNCHANGED <<cert_dir, catalogueVars>>
    /\ UNCHANGED <<script, now, lastLog, fetches, logins, output_file>>
    /\ UNCHANGED <<tickVars, eventVars, influxVars>>
    /\ UNCHANGED mainVars

\* ------------------------------------------------- poll_market_book
\* current_data['timestamp'] = current_timestamp
AddTimestamp(d, t) ==
    [k \in DOMAIN d \cup {"timestamp"} |-> IF k = "timestamp" THEN t ELSE d[k]]

\* Variant that opens the file with mode 'w'.
AppendLines_Overwrite(file, lines) == lines

\* with open(output_file, 'a') as f: f.write(line + '\n') for each line.
AppendLines(file, lines) == file \o lines

\* Variant that assigns last_data before the write.
LastDataAfter_Always(written, last, current) == current

\* Line 154, last_data = current_data, is reached only when the open and
\* the write of lines 148-149 did not raise.
LastDataAfter(written, last, current) == IF written THEN current ELSE last

\* Variant that loses the `last_data is None` disjunct.
ShouldRecord_NoFirstSeen(last, current) == last # None /\ current # last

\* if last_data is None or current_data != last_data
ShouldRecord(last, current) == last = None \/ current # last

\* Variant in which the except clauses re-raise.
PMB_AfterError_Raise == "pmb_finally"

\* Lines 160-165: both except clauses only log, and time.sleep follows.
PMB_AfterError == "pmb_sleep"

\* One iteration of the while loop up to time.sleep: the fetch, the
\* comparison with last_data, the append to the output file.  A failure of
\* open/write is caught by `except Exception` (lines 162-163).
PMB_Tick ==
    /\ script = "poll_tick" /\ pc = "pmb_top"
    /\ fetches < MaxFetches
    /\ fetches' = fetches + 1
    /\ \E out \in FetchOutcomes(session) :
         /\ lastCall' = out
         /\ CASE out = "fetch_ok" ->
                \E current_data \in Payloads :
                   /\ market_books' = <<current_data>>
                   /\ IF ShouldRecord(last_data, current_data)
                      THEN \E written \in BOOLEAN :
                              /\ output_file' =
                                   IF written
                                   THEN AppendLines(output_file,
                                          <<AddTimestamp(current_data, now)>>)
                                   ELSE output_file
                              /\ last_data' =
                                   LastDataAfter(written, last_data,
                                       AddTimestamp(current_data, now))
                              /\ lastLog' = IF written THEN "recorded"
                                            ELSE "unexpected_error"
                              /\ pc' = IF written THEN "pmb_sleep"
                                       ELSE PMB_AfterError
                      ELSE /\ lastLog' = "no_changes"
                           /\ pc' = "pmb_sleep"
                           /\ UNCHANGED <<output_file, last_data>>
              [] out = "fetch_empty" ->
                   /\ market_books' = <<>>
                   /\ lastLog' = "no_data"
                   /\ pc' = "pmb_sleep"
                   /\ UNCHANGED <<output_file, last_data>>
              [] OTHER ->
                   /\ lastLog' = "betfair_error"
                   /\ pc' = PMB_AfterError
                   /\ UNCHANGED <<market_books, output_file, last_data>>
    /\ UNCHANGED <<cert_dir, catalogueVars>>
    /\ UNCHANGED <<script, now, session, logins, logouts>>
    /\ UNCHANGED <<eventVars, influxVars>>
    /\ UNCHANGED mainVars

\* time.sleep(interval)
PMB_Sleep ==
    /\ script = "poll_tick" /\ pc = "pmb_sleep"
    /\ pc' = "pmb_top"
    /\ now' = now + 1
    /\ UNCHANGED <<cert_dir, catalogueVars>>
    /\ UNCHANGED <<script, output_file>>
    /\ UNCHANGED <<sessionVars, tickVars, eventVars, influxVars>>
    /\ UNCHANGED mainVars

\* Variant without the finally clause.
PMB_Interrupt_NoFinally ==
    /\ script = "poll_tick" /\ pc \in {"pmb_top", "pmb_sleep"}
    /\ pc' = "done"
    /\ lastLog' = "polling_stopped"
    /\ UNCHANGED <<cert_dir, catalogueVars>>
    /\ UNCHANGED <<script, now, output_file>>
    /\ UNCHANGED <<session, lastCall, fetches, logins, logouts>>
    /\ UNCHANGED <<tickVars, eventVars, influxVars>>
    /\ UNCHANGED mainVars

\* KeyboardInterrupt: except KeyboardInterrupt, then the finally clause.
PMB_Interrupt ==
    /\ script = "poll_tick" /\ pc \in {"pmb_top", "pmb_sleep"}
    /\ pc' = "pmb_finally"
    /\ lastLog' = "polling_stopped"
    /\ UNCHANGED <<cert_dir, catalogueVars>>
    /\ UNCHANGED <<script, now, output_file>>
    /\ UNCHANGED <<session, lastCall, fetches, logins, logouts>>
    /\ UNCHANGED <<tickVars, eventVars, influxVars>>
    /\ UNCHANGED mainVars

\* finally: self.logout()
PMB_Finally ==
    /\ script = "poll_tick" /\ pc = "pmb_finally"
    /\ Logout("main_finally")

\* poll_tick.main / poll_events.main: finally: api.logout()
Main_Finally ==
    /\ script \in {"poll_tick", "poll_events"} /\ pc = "main_finally"
    /\ Logout("done")

\* ---------------------------------------------------- known_events.json
Range(s) == {s[i] : i \in 1..Len(s)}

\* The file is missing, or holds text that is not JSON ("invalid": an empty
\* or truncated file), a JSON array ("array", its elements in items), a JSON
\* object ("object", its keys in items) or a JSON number/null ("scalar").
KnownFile(kind, items) == [kind |-> kind, items |-> items]

\* json.dump(list(known_event_ids), f): the ids in the iteration order of
\* the set, which is arbitrary; one file per order.
JsonDumpList(ids) ==
    {KnownFile("array", s) : s \in {t \in [1..Cardinality(ids) -> ids] :
                                       Range(t) = ids}}

\* open(file_path, 'w') before anything is written: an empty file.
Truncated == KnownFile("invalid", <<>>)

\* Variant that forgets the first element of the array.
LoadKnown_DropFirst(file) ==
    CASE file.kind \in {"missing", "invalid"} -> [raised |-> FALSE, ids |-> {}]
      [] file.kind = "scalar" -> [raised |-> TRUE, ids |-> {}]
      [] OTHER -> [raised |-> FALSE,
                   ids |-> IF file.items = <<>> THEN {}
                           ELSE Range(Tail(file.items))]

\* _load_known_event_ids: the set it returns, or that it raises.  Only
\* json.JSONDecodeError is caught; set(json.load(f)) of a JSON number or
\* null raises TypeError, of an object gives the set of its keys.
LoadKnown(file) ==
    CASE file.kind \in {"missing", "invalid"} -> [raised |-> FALSE, ids |-> {}]
      [] file.kind = "scalar" -> [raised |-> TRUE, ids |-> {}]
      [] OTHER -> [raised |-> FALSE, ids |-> Range(file.items)]

\* ---------------------------------------------------- poll_new_events
\* Variant that does not filter by the known set.
NewEvents_NoFilter(events, known) == events

\* [event for event in current_events if event.event.id not in known_event_ids]
NewEvents(events, known) ==
    LET NotKnown(id) == id \notin known IN SelectSeq(events, NotKnown)

\* The line written for one event.
EventRecord(id, t) == [event_id |-> id, timestamp |-> t]

\* Variant in which a failure inside the with block goes unnoticed.
WriteCompleted_Always(written, events) == TRUE

\* The with block of lines 202-212 ran to its end: every f.write returned.
WriteCompleted(written, events) == written = Len(events)

\* Variant: the in-memory set is replaced by the ids of this tick.
UpdateKnown_Replace(known, events) == Range(events)

\* known_event_ids.update(event.event.id for event in new_events)
UpdateKnown(known, events) == known \cup Range(events)

\* Lists a list_events call can return.
EventLists == UNION {[1..n -> EventIds] : n \in 1..MaxEvents}

\* known_event_ids = self._load_known_event_ids(); a TypeError leaves
\* poll_new_events (the call is outside its try) for main's handlers.
PNE_Load ==
    /\ script = "poll_events" /\ pc = "pne_load"
    /\ LET r == LoadKnown(known_file) IN
         IF r.raised
         THEN /\ pc' = "main_finally"
              /\ lastLog' = "main_error"
              /\ UNCHANGED <<known_event_ids, loaded_ids>>
         ELSE /\ pc' = "pne_top"
              /\ lastLog' = "loaded"
              /\ known_event_ids' = r.ids
              /\ loaded_ids' = r.ids
    /\ UNCHANGED <<cert_dir, catalogueVars>>
    /\ UNCHANGED <<script, now, session, lastCall, fetches, logins, logouts,
                   output_file, current_events, new_events, known_file, runs>>
    /\ UNCHANGED <<tickVars, influxVars>>
    /\ UNCHANGED mainVars

\* One iteration of the while loop up to the update of known_event_ids:
\* list_events (None on an error, kept as the empty list here), the filter,
\* and the with block that writes one line per new event.  A write that
\* raises leaves the lines written before it in the file.
PNE_Tick ==
    /\ script = "poll_events" /\ pc = "pne_top"
    /\ fetches < MaxFetches
    /\ fetches' = fetches + 1
    /\ \E out \in FetchOutcomes(session) :
         /\ lastCall' = out
         /\ IF out = "fetch_ok"
            THEN \E events \in EventLists :
                   /\ current_events' = events
                   /\ new_events' = NewEvents(events, known_event_ids)
                   /\ IF new_events' = <<>>
                      THEN /\ lastLog' = "no_new_events"
                           /\ pc' = "pne_sleep"
                           /\ UNCHANGED output_file
                      ELSE \E written \in 0..Len(new_events') :
                             /\ output_file' = AppendLines(output_file,
                                  [i \in 1..written |->
                                     EventRecord(new_events'[i], now)])
                             /\ IF WriteCompleted(written, new_events')
                                THEN /\ lastLog' = "logged_new_events"
                                     /\ pc' = "pne_update"
                                ELSE /\ lastLog' = "unexpected_error"
                                     /\ pc' = "pne_except"
            ELSE /\ current_events' = <<>>
                 /\ lastLog' = "no_events"
                 /\ pc' = "pne_sleep"
                 /\ UNCHANGED <<new_events, output_file>>
    /\ UNCHANGED <<cert_dir, catalogueVars>>
    /\ UNCHANGED <<script, now, session, logins, logouts, known_event_ids,
                   known_file, loaded_ids, runs>>
    /\ UNCHANGED <<tickVars, influxVars>>
    /\ UNCHANGED mainVars

\* Lines 215-216: the update of the set and _save_known_event_ids, which
\* truncates the file on open and then dumps the list.  The open can fail
\* (file untouched) and the dump can fail (file left truncated).
PNE_Save ==
    /\ script = "poll_events" /\ pc = "pne_update"
    /\ known_event_ids' = UpdateKnown(known_event_ids, new_events)
    /\ \/ /\ known_file' \in JsonDumpList(known_event_ids')
          /\ pc' = "pne_sleep"
          /\ lastLog' = "saved"
       \/ /\ known_file' \in {known_file, Truncated}
          /\ pc' = "pne_except"
          /\ lastLog' = "unexpected_error"
    /\ UNCHANGED <<cert_dir, catalogueVars>>
    /\ UNCHANGED <<script, now, session, lastCall, fetches, logins, logouts,
                   output_file, current_events, new_events, loaded_ids, runs>>
    /\ UNCHANGED <<tickVars, influxVars>>
    /\ UNCHANGED mainVars

\* time.sleep(interval) and the jump to the top of the loop, where
\* current_events and new_events are dead (both are assigned before they
\* are read again).
PNE_Sleep ==
    /\ script = "poll_events" /\ pc = "pne_sleep"
    /\ pc' = "pne_top"
    /\ now' = now + 1
    /\ current_events' = <<>>
    /\ new_events' = <<>>
    /\ UNCHANGED <<cert_dir, catalogueVars>>
    /\ UNCHANGED <<script, output_file, known_event_ids, known_file,
                   loaded_ids, runs>>
    /\ UNCHANGED <<sessionVars, tickVars, influxVars>>
    /\ UNCHANGED mainVars

\* except Exception: log the error, self.logout()
PNE_Except ==
    /\ script = "poll_events" /\ pc = "pne_except"
    /\ Logout("main_finally")

\* except KeyboardInterrupt: log only
PNE_Interrupt ==
    /\ script = "poll_events" /\ pc \in {"pne_top", "pne_sleep"}
    /\ pc' = "main_finally"
    /\ lastLog' = "polling_stopped"
    /\ UNCHANGED <<cert_dir, catalogueVars>>
    /\ UNCHANGED <<script, now, output_file>>
    /\ UNCHANGED <<session, lastCall, fetches, logins, logouts>>
    /\ UNCHANGED <<tickVars, eventVars, influxVars>>
    /\ UNCHANGED mainVars

\* The process dies (kill, power loss).  Inside _save_known_event_ids the
\* file may already have been truncated by the open.
Crash ==
    /\ script = "poll_events"
    /\ pc \in {"pne_top", "pne_update", "pne_sleep"}
    /\ pc' = "crashed"
    /\ known_file' \in IF pc = "pne_update" THEN {known_file, Truncated}
                       ELSE {known_file}
    /\ UNCHANGED <<cert_dir, catalogueVars>>
    /\ UNCHANGED <<script, now, output_file, current_events, new_events,
                   known_event_ids, loaded_ids, runs>>
    /\ UNCHANGED <<sessionVars, tickVars, influxVars>>
    /\ UNCHANGED mainVars

\* poll_events.py is started again: a new BetfairAPI (login), empty memory;
\* the files are as the previous process left them.
Restart ==
    /\ script = "poll_events" /\ pc \in {"crashed", "done"}
    /\ runs < MaxRuns
    /\ runs' = runs + 1
    /\ pc' = "pne_load"
    /\ session' = "valid"
    /\ lastCall' = "login_ok"
    /\ lastLog' = "started"
    /\ logins' = 1
    /\ logouts' = 0
    /\ current_events' = <<>>
    /\ new_events' = <<>>
    /\ known_event_ids' = {}
    /\ loaded_ids' = {}
    /\ UNCHANGED <<cert_dir, catalogueVars>>
    /\ UNCHANGED <<script, now, fetches, output_file, known_file>>
    /\ UNCHANGED <<tickVars, influxVars>>
    /\ UNCHANGED mainVars

\* ------------------------------------- log_market_data (InfluxDB script)
\* Values of market_start_time; 0 stands for None.
StartTimes == 0..MaxFetches

\* market_data.get('totalMatched', 0) of a fetched book: 0 also stands for
\* an absent key.
TotalMatched == {0, 1}

\* The counters of log_market_data stop at their bound, so that a loop that
\* never ends is a cycle of states: `cap` reads "cap or more".
Bump(n, cap) == IF n < cap THEN n + 1 ELSE n

\* Variant that logs in twice.
HandleSessionError_Twice ==
    /\ logins' = logins + 2
    /\ \/ /\ session' = "valid"
          /\ lastCall' = "login_ok"
          /\ lastLog' = "reauth_ok"
       \/ /\ session' = session
          /\ lastCall' = "login_fail"
          /\ lastLog' = "reauth_failed"

\* handle_session_error: api.client.login(); a BetfairError is logged and
\* swallowed, and nothing is returned to the caller in either case.
HandleSessionError ==
    /\ logins' = Bump(logins, MaxFetches + 1)
    /\ \/ /\ session' = "valid"
          /\ lastCall' = "login_ok"
          /\ lastLog' = "reauth_ok"
       \/ /\ session' = session
          /\ lastCall' = "login_fail"
          /\ lastLog' = "reauth_failed"

\* Lines 211-219: the two break tests, else time.sleep(1) follows.
AfterBook ==
    IF market_start_time = 0 \/ now >= market_start_time
    THEN "lmd_finally" ELSE "lmd_sleep"

\* Variant of the loop condition that ignores the flag.
LMD_Continue_Always(flag) == TRUE

\* Line 173: while not terminate_event.is_set()
LMD_Continue(flag) == ~flag

\* Results of a list_market_book call that did not raise.
Books(out) ==
    IF out = "fetch_ok" THEN {<<[totalMatched |-> t]>> : t \in TotalMatched}
    ELSE {<<>>}

\* Variant that takes a missing book for data to log.
WritesPoint_OnEmpty(books) == books = <<>> \/ books[1].totalMatched > 0

\* Lines 183 and 191: a point is built and written for a non-empty result
\* whose totalMatched is positive.
WritesPoint(books) == books # <<>> /\ books[1].totalMatched > 0

\* One iteration of `while not terminate_event.is_set()` up to time.sleep or
\* to the end of the except clause.  Lines 188-189 read market_name and
\* market_type from the fetched MarketBook before totalMatched is tested;
\* where the book has no such attribute, AttributeError is no BetfairError
\* and leaves the loop through the finally clause without a log message.
LMD_Tick ==
    /\ script = "log_market_data" /\ pc = "lmd_top"
    /\ LMD_Continue(terminate_event)
    /\ fetches' = Bump(fetches, MaxFetches)
    /\ \E out \in FetchOutcomes(session) :
         CASE out \in {"fetch_ok", "fetch_empty"} ->
                \E books \in Books(out) :
                  /\ market_books' = books
                  /\ lastCall' = out
                  /\ \/ /\ books # <<>>
                        /\ pc' = "lmd_finally"
                        /\ UNCHANGED <<lastLog, points>>
                     \/ IF WritesPoint(books)
                        THEN \/ /\ config # "bucket"
                                /\ points' = Bump(points, MaxFetches)
                                /\ lastLog' = "logged"
                                /\ pc' = AfterBook
                             \/ /\ lastLog' = "write_failed"
                                /\ pc' = "lmd_finally"
                                /\ UNCHANGED points
                        ELSE /\ lastLog' = IF books = <<>> THEN lastLog
                                          ELSE "skipping"
                             /\ pc' = AfterBook
                             /\ UNCHANGED points
                  /\ UNCHANGED <<session, logins>>
           [] out = "fetch_403" ->
                  /\ HandleSessionError
                  /\ pc' = "lmd_top"
                  /\ UNCHANGED <<market_books, points>>
           [] OTHER ->
                  /\ lastCall' = out
                  /\ lastLog' = "unexpected_error"
                  /\ pc' = "lmd_finally"
                  /\ UNCHANGED <<session, logins, market_books, points>>
    /\ UNCHANGED <<cert_dir, catalogueVars>>
    /\ UNCHANGED <<script, now, logouts, last_data, output_file,
                   terminate_event, market_start_time>>
    /\ UNCHANGED eventVars
    /\ UNCHANGED mainVars

\* while not terminate_event.is_set(): the flag is set
LMD_Exit ==
    /\ script = "log_market_data" /\ pc = "lmd_top"
    /\ ~LMD_Continue(terminate_event)
    /\ pc' = "lmd_finally"
    /\ UNCHANGED <<cert_dir, catalogueVars>>
    /\ UNCHANGED <<script, now, output_file>>
    /\ UNCHANGED <<sessionVars, tickVars, eventVars, influxVars>>
    /\ UNCHANGED mainVars

\* time.sleep(1)
LMD_Sleep ==
    /\ script = "log_market_data" /\ pc = "lmd_sleep"
    /\ pc' = "lmd_top"
    /\ now' = now + 1
    /\ UNCHANGED <<cert_dir, catalogueVars>>
    /\ UNCHANGED <<script, output_file>>
    /\ UNCHANGED <<sessionVars, tickVars, eventVars, influxVars>>
    /\ UNCHANGED mainVars

\* Variant with the logout inside the loop.
LMD_Finally_InsideLoop ==
    /\ script = "log_market_data" /\ pc = "lmd_finally"
    /\ Logout("lmd_top")

\* finally: api.logout()
LMD_Finally ==
    /\ script = "log_market_data" /\ pc = "lmd_finally"
    /\ Logout("done")

\* signal_handler: terminate_event.set()
Signal ==
    /\ script \in {"log_market_data", "influx_main"}
    /\ pc \notin {"im_config", "failed", "done"}
    /\ ~terminate_event
    /\ terminate_event' = TRUE
    /\ UNCHANGED <<cert_dir, catalogueVars>>
    /\ UNCHANGED <<script, pc, now, output_file, market_start_time, points>>
    /\ UNCHANGED <<sessionVars, tickVars, eventVars>>
    /\ UNCHANGED mainVars

\* ------------------------------------------- main (InfluxDB script)
\* Thread.is_alive(): true between start() and the end of run().
IsAlive(thread) == thread = "started"

\* events = fetch_events(api, logger); if not events: return
IM_FetchEvents ==
    /\ script = "influx_main" /\ pc = "im_fetch_events"
    /\ \E n \in 0..MaxEvents :
         /\ events_left' = n
         /\ pc' = IF n = 0 THEN "im_finally" ELSE "im_for"
    /\ UNCHANGED <<cert_dir, catalogueVars>>
    /\ UNCHANGED <<script, now, output_file, log_thread, config, start_time>>
    /\ UNCHANGED <<sessionVars, tickVars, eventVars, influxVars>>

\* Minutes that event.event.open_date can be, and the market_start_time
\* values of a catalogue entry (0 stands for None) around them.
EventStarts == {60, 90}
MarketStartTimes == {0, 29, 30, 60, 90, 91, 120}

\* Line 137: time_tolerance = timedelta(minutes=30)
TimeTolerance == 30

\* A MarketCatalogue entry as far as the selection reads it.
Market(id, st, tm) ==
    [market_id |-> id, market_start_time |-> st, total_matched |-> tm]

\* Results of list_market_catalogue that did not raise: up to MaxMarkets
\* entries, market_id being the position in the response.
Catalogues ==
    UNION {{ms \in [1..n -> {Market(i, st, tm) : i \in 1..n,
                                                 st \in MarketStartTimes,
                                                 tm \in 0..MaxMatched}] :
               \A i \in 1..n : ms[i].market_id = i} : n \in 0..MaxMarkets}

Abs(d) == IF d < 0 THEN 0 - d ELSE d

\* Lines 140-141: m.market_start_time and abs(m.market_start_time -
\* event_start_time) <= time_tolerance
WithinTolerance(m, est) ==
    /\ m.market_start_time # 0
    /\ Abs(m.market_start_time - est) <= TimeTolerance

\* Lines 138-142: valid_markets, in the order of the response.
ValidMarkets(ms, est) == SelectSeq(ms, LAMBDA m : WithinTolerance(m, est))

\* Line 149: max(valid_markets, key=lambda x: x.total_matched, default=None),
\* the first of the entries with the greatest key.
MaxByTotalMatched(v) ==
    IF v = <<>> THEN None
    ELSE v[CHOOSE i \in 1..Len(v) :
             /\ \A j \in 1..Len(v) : v[j].total_matched <= v[i].total_matched
             /\ \A j \in 1..(i - 1) : v[j].total_matched < v[i].total_matched]

\* Lines 137-158: the value poll_markets_for_event returns for a non-empty
\* catalogue when nothing raises.
TopMarket(ms, est) == MaxByTotalMatched(ValidMarkets(ms, est))

\* One pass of `for event in events` up to the call of
\* poll_markets_for_event: the termination test at 256-258, then lines
\* 100-107 read the event's start time.
IM_ForEvent ==
    /\ script = "influx_main" /\ pc = "im_for"
    /\ IF terminate_event \/ events_left = 0
       THEN /\ pc' = "im_finally"
            /\ UNCHANGED <<events_left, event_start_time>>
       ELSE /\ events_left' = events_left - 1
            /\ event_start_time' \in EventStarts
            /\ pc' = "pmfe_list"
    /\ UNCHANGED <<cert_dir, markets, top_market>>
    /\ UNCHANGED <<script, now, output_file, log_thread, config, start_time>>
    /\ UNCHANGED <<sessionVars, tickVars, eventVars, influxVars>>

\* poll_markets_for_event, lines 109-121 and 160-162: list_market_catalogue
\* raises BetfairError (return None), or answers with a catalogue; an empty
\* one returns None.  None makes main `continue` (262-263).
PMFE_List ==
    /\ script = "influx_main" /\ pc = "pmfe_list"
    /\ \/ /\ lastCall' = "catalogue_err"
          /\ markets' = <<>>
          /\ top_market' = None
          /\ pc' = "im_for"
       \/ \E ms \in Catalogues :
            /\ lastCall' = "catalogue_ok"
            /\ markets' = ms
            /\ IF ms = <<>>
               THEN top_market' = None /\ pc' = "im_for"
               ELSE UNCHANGED top_market /\ pc' = "pmfe_select"
    /\ UNCHANGED <<cert_dir, event_start_time>>
    /\ UNCHANGED <<script, now, output_file>>
    /\ UNCHANGED <<session, lastLog, fetches, logins, logouts>>
    /\ UNCHANGED <<tickVars, eventVars, influxVars, mainVars>>

\* poll_markets_for_event, lines 123-158, and main, lines 262-273.  Line 125
\* prints markets._data, an attribute of the list the library returned: where
\* the list has none, AttributeError leaves the function through
\* `except BetfairError` and main through its finally.  Otherwise the
\* selection is returned; None makes main `continue`, a market makes it
\* construct the Thread object.  The Thread is constructed only: main has
\* no log_thread.start().
PMFE_Select ==
    /\ script = "influx_main" /\ pc = "pmfe_select"
    /\ markets' = <<>>
    /\ \/ /\ lastLog' = "attribute_error"
          /\ pc' = "im_finally"
          /\ UNCHANGED <<top_market, log_thread>>
       \/ /\ top_market' = TopMarket(markets, event_start_time)
          /\ IF top_market' = None
             THEN /\ lastLog' = "no_valid_markets"
                  /\ pc' = "im_for"
                  /\ UNCHANGED log_thread
             ELSE /\ lastLog' = "top_market"
                  /\ log_thread' = "created"
                  /\ pc' = "im_wait"
    /\ UNCHANGED <<cert_dir, event_start_time>>
    /\ UNCHANGED <<script, now, output_file, events_left, config, start_time>>
    /\ UNCHANGED <<session, lastCall, fetches, logins, logouts>>
    /\ UNCHANGED <<tickVars, eventVars, influxVars>>

\* while log_thread.is_alive() and not terminate_event.is_set(): sleep(1)
IM_Wait ==
    /\ script = "influx_main" /\ pc = "im_wait"
    /\ IF IsAlive(log_thread) /\ ~terminate_event
       THEN /\ pc' = "im_wait"
            /\ now' = now + 1
       ELSE /\ pc' = "im_for"
            /\ now' = now
    /\ UNCHANGED <<cert_dir, catalogueVars>>
    /\ UNCHANGED <<script, output_file>>
    /\ UNCHANGED <<sessionVars, tickVars, eventVars, influxVars, mainVars>>

\* finally: terminate_event.set()
IM_Finally ==
    /\ script = "influx_main" /\ pc = "im_finally"
    /\ terminate_event' = TRUE
    /\ pc' = "im_logout"
    /\ UNCHANGED <<cert_dir, catalogueVars>>
    /\ UNCHANGED <<script, now, output_file, market_start_time, points>>
    /\ UNCHANGED <<sessionVars, tickVars, eventVars, mainVars>>

\* finally: api.logout()
IM_Logout ==
    /\ script = "influx_main" /\ pc = "im_logout"
    /\ Logout("done")

\* ---------------------------------------------------------------- start-up
\* The required values a script can lack: a BETFAIR_* variable of .env
\* ("env"), influxdb.url/token/org of config.yaml ("influx_conn"),
\* influxdb.bucket ("bucket").  log_market_data is only reached when the
\* values read before it were present.
Configs(s) ==
    CASE s = "influx_main" -> {"ok", "env", "influx_conn", "bucket"}
      [] s = "log_market_data" -> {"ok", "bucket"}
      [] s = "collect_context" -> {"ok"}
      [] OTHER -> {"ok", "env"}

\* First statement of each main after api = BetfairAPI().
FirstPc(s) ==
    CASE s = "poll_tick" -> "pmb_top"
      [] s = "poll_events" -> "pne_load"
      [] s = "influx_main" -> "im_fetch_events"
      [] OTHER -> "fm_list_events"

\* Exit status of the interpreter: main returned ("done"), or an exception
\* reached the top level ("failed").
ExitCode(p) ==
    CASE p = "done" -> "0"
      [] p = "failed" -> "1"
      [] OTHER -> "none"

\* InfluxDB main, lines 238-239: load_config() and init_influx_client(),
\* which reads config['influxdb']['url'], ['token'] and ['org'].
IM_Config ==
    /\ script = "influx_main" /\ pc = "im_config"
    /\ pc' = IF config = "influx_conn" THEN "failed" ELSE "start"
    /\ UNCHANGED <<cert_dir, catalogueVars>>
    /\ UNCHANGED <<script, now, output_file>>
    /\ UNCHANGED <<sessionVars, tickVars, eventVars, influxVars, mainVars>>

\* api = BetfairAPI(): the check of the environment variables (lines
\* 34-36), then client.login() (46); both failures raise.  The mains
\* construct the object outside their try; the InfluxDB main inside, where
\* the finally clause then fails on the unbound name api.
Construct ==
    /\ script \in Processes /\ pc = "start"
    /\ IF config = "env"
       THEN /\ pc' = "failed"
            /\ lastLog' = "env_missing"
            /\ UNCHANGED <<session, lastCall, logins>>
       ELSE /\ logins' = 1
            /\ \/ /\ session' = "valid"
                  /\ lastCall' = "login_ok"
                  /\ lastLog' = "started"
                  /\ pc' = FirstPc(script)
               \/ /\ session' = session
                  /\ lastCall' = "login_fail"
                  /\ lastLog' = "auth_failed"
                  /\ pc' = "failed"
    /\ terminate_event' =
         IF script = "influx_main" /\ pc' = "failed" THEN TRUE
         ELSE terminate_event
    /\ UNCHANGED <<cert_dir, catalogueVars>>
    /\ UNCHANGED <<script, now, fetches, logouts, output_file,
                   market_start_time, points>>
    /\ UNCHANGED <<tickVars, eventVars, mainVars>>

\* ------------------------- main and log_market_data (file-variant script)
\* tests/test_betfair_racing_polling.py, line 79: events = api.list_events();
\* `if not events: return` goes to the finally clause.
FM_ListEvents ==
    /\ script = "polling_main" /\ pc = "fm_list_events"
    /\ \E n \in 0..MaxEvents :
         /\ events_left' = n
         /\ lastCall' = IF n = 0 THEN "fetch_empty" ELSE "fetch_ok"
         /\ pc' = IF n = 0 THEN "fm_finally" ELSE "fm_for"
    /\ UNCHANGED <<cert_dir, catalogueVars>>
    /\ UNCHANGED <<script, now, session, lastLog, fetches, logins, logouts,
                   output_file, log_thread, config, start_time>>
    /\ UNCHANGED <<tickVars, eventVars, influxVars>>

\* One pass of the for loop (lines 87-114) up to the call of
\* log_market_data: list_market_catalogue for the next event, in ascending
\* order of open_date; no markets: continue; an exception of the call goes
\* to main's except clause.  Each event has a log file of its own.
FM_ForEvent ==
    /\ script = "polling_main" /\ pc = "fm_for"
    /\ IF events_left = 0
       THEN /\ pc' = "fm_finally"
            /\ UNCHANGED <<events_left, lastCall, lastLog, market_start_time,
                           output_file, start_time>>
       ELSE /\ events_left' = events_left - 1
            /\ \E t \in StartTimes :
                 /\ t >= market_start_time /\ t > 0
                 /\ market_start_time' = t
            /\ \E out \in FetchOutcomes(session) :
                 /\ lastCall' = out
                 /\ CASE out = "fetch_ok" ->
                           /\ pc' = "flmd_top"
                           /\ output_file' = <<>>
                           /\ start_time' = 0
                           /\ lastLog' = "logging_started"
                      [] out = "fetch_empty" ->
                           /\ pc' = "fm_for"
                           /\ lastLog' = "no_markets"
                           /\ UNCHANGED <<output_file, start_time>>
                      [] OTHER ->
                           /\ pc' = "fm_finally"
                           /\ lastLog' = "main_error"
                           /\ UNCHANGED <<output_file, start_time>>
    /\ UNCHANGED <<cert_dir, catalogueVars>>
    /\ UNCHANGED <<script, now, session, fetches, logins, logouts,
                   terminate_event, points, log_thread, config>>
    /\ UNCHANGED <<tickVars, eventVars>>

\* The break test of line 38: if start_time and utcnow() >= start_time.
FLMD_Started(st, t) == st # 0 /\ t >= st

\* One iteration of `while True` (lines 15-42) up to time.sleep: the fetch;
\* for a non-empty result the line appended to the log file and start_time
\* taken from market_definition when the book has one (0: it has none);
\* then the break test.  Every exception of the body is caught by
\* `except Exception` (lines 46-47), outside the loop.
FLMD_Tick ==
    /\ script = "polling_main" /\ pc = "flmd_top"
    /\ \E out \in FetchOutcomes(session) :
         /\ lastCall' = out
         /\ CASE out = "fetch_ok" ->
                   /\ Len(output_file) < MaxFetches
                   /\ \E data \in Payloads, def \in {0, market_start_time} :
                        /\ market_books' = <<data>>
                        /\ \/ /\ output_file' = AppendLines(output_file,
                                     <<AddTimestamp(data, now)>>)
                              /\ start_time' =
                                   IF def # 0 THEN def ELSE start_time
                              /\ lastLog' = "logged"
                              /\ pc' = IF FLMD_Started(start_time', now)
                                       THEN "flmd_finally" ELSE "flmd_sleep"
                           \/ /\ lastLog' = "logging_error"
                              /\ pc' = "flmd_finally"
                              /\ UNCHANGED <<output_file, start_time>>
              [] out = "fetch_empty" ->
                   /\ market_books' = <<>>
                   /\ pc' = IF FLMD_Started(start_time, now)
                            THEN "flmd_finally" ELSE "flmd_sleep"
                   /\ UNCHANGED <<output_file, start_time, lastLog>>
              [] OTHER ->
                   /\ lastLog' = "logging_error"
                   /\ pc' = "flmd_finally"
                   /\ UNCHANGED <<market_books, output_file, start_time>>
    /\ UNCHANGED <<cert_dir, catalogueVars>>
    /\ UNCHANGED <<script, now, session, fetches, logins, logouts, last_data,
                   events_left, log_thread, config>>
    /\ UNCHANGED <<eventVars, influxVars>>

\* time.sleep(1); the clock stops at its bound, which no start time exceeds.
FLMD_Sleep ==
    /\ script = "polling_main" /\ pc = "flmd_sleep"
    /\ pc' = "flmd_top"
    /\ now' = Bump(now, MaxFetches)
    /\ UNCHANGED <<cert_dir, catalogueVars>>
    /\ UNCHANGED <<script, output_file>>
    /\ UNCHANGED <<sessionVars, tickVars, eventVars, influxVars, mainVars>>

\* except KeyboardInterrupt (lines 44-45): only log_market_data ends.
FLMD_Interrupt ==
    /\ script = "polling_main" /\ pc \in {"flmd_top", "flmd_sleep"}
    /\ pc' = "flmd_finally"
    /\ lastLog' = "logging_stopped"
    /\ UNCHANGED <<cert_dir, catalogueVars>>
    /\ UNCHANGED <<script, now, output_file>>
    /\ UNCHANGED <<session, lastCall, fetches, logins, logouts>>
    /\ UNCHANGED <<tickVars, eventVars, influxVars, mainVars>>

\* finally: api.logout() (lines 48-49); control returns to main's for loop.
FLMD_Finally ==
    /\ script = "polling_main" /\ pc = "flmd_finally"
    /\ Logout("fm_for")

\* main, finally: api.logout() (lines 121-127)
FM_Finally ==
    /\ script = "polling_main" /\ pc = "fm_finally"
    /\ Logout("done")

\* ------------------------------------------ scripts/collect_context.py
\* Names of the files a certificate directory can hold.
CertFiles == {"client.key", "ca.crt", "README.txt"}

\* fnmatch against '*.key', '*.pem', '*.crt', '*.csr' looks at the suffix.
Suffix(name) ==
    CASE name = "client.key" -> "key"
      [] name = "ca.crt" -> "crt"
      [] OTHER -> "txt"

\* The directory args.cert_dir names: missing, a directory os.scandir
\* cannot open, or a directory with files.
CertDir(state, files) == [state |-> state, files |-> files]

CertDirs ==
    {CertDir("missing", <<>>), CertDir("unreadable", <<>>)} \cup
    {CertDir("present", fs) :
        fs \in UNION {[1..n -> CertFiles] : n \in 0..MaxX}}

\* Scripts other than collect_context have no certificate directory.
NoCertDir == CertDir("none", <<>>)

\* A piece of text written to the context file: a section header, an
\* "<!-- ... -->" note, or a "===== SSL CERT: name =====" block.
Text(kind, name) == [kind |-> kind, name |-> name]

\* should_exclude(entry.name, exclude_patterns) at line 246, and the second
\* test of the same patterns at line 253.
ShouldExclude(name) == Suffix(name) \in {"key", "pem", "crt", "csr"}

\* collect_ssl_certs, lines 236-264: one note for a missing directory, one
\* note when scanning raises, else one block per file that is not excluded.
CollectSslCerts(dir) ==
    IF dir.state = "missing" THEN <<Text("note", "missing")>>
    ELSE IF dir.state = "unreadable" THEN <<Text("note", "error")>>
    ELSE LET kept == SelectSeq(dir.files, LAMBDA f : ~ShouldExclude(f))
         IN [i \in 1..Len(kept) |-> Text("cert", kept[i])]

\* Line 427: cert.split('===== SSL CERT: ')[1] has an element 1 only when
\* the text holds that marker, which the blocks do and the notes do not.
HasCertName(cert) == cert.kind = "cert"

\* Lines 425-428: each entry is written and then parsed for its name; the
\* first entry without a name raises IndexError after it has been written.
RECURSIVE WrittenCerts(_)
WrittenCerts(certs) ==
    IF certs = <<>> THEN <<>>
    ELSE IF HasCertName(Head(certs))
         THEN <<Head(certs)>> \o WrittenCerts(Tail(certs))
         ELSE <<Head(certs)>>

\* Whether the loop at 425-428 runs to its end.
CertLoopCompletes(certs) == \A i \in 1..Len(certs) : HasCertName(certs[i])

\* Lines 383-423: the sections written before the certificates.
ContextSections ==
    <<Text("header", "SYSTEM SETUP SUMMARY"), Text("header", "FILES"),
      Text("header", "VIRTUAL ENVIRONMENT"),
      Text("header", "INSTALLED PACKAGES"),
      Text("header", "SSL CERTIFICATES")>>

\* main, lines 291-380: logging, system information, arguments, config,
\* the list of files, the output directory and the removal of an old
\* output file.  makedirs or remove failing ends in sys.exit(1).
CC_Prepare ==
    /\ script = "collect_context" /\ pc = "cc_start"
    /\ \/ /\ lastLog' = "prepared"
          /\ pc' = "cc_write"
       \/ /\ lastLog' = "error_preparing"
          /\ pc' = "failed"
    /\ output_file' = <<>>
    /\ UNCHANGED <<cert_dir, catalogueVars>>
    /\ UNCHANGED <<script, now>>
    /\ UNCHANGED <<session, lastCall, fetches, logins, logouts>>
    /\ UNCHANGED <<tickVars, eventVars, influxVars, mainVars>>

\* main, lines 382-434: the try block that opens the output file, writes
\* the sections and the certificates, and logs completion; any exception in
\* it is logged as an error writing the file and ends in sys.exit(1).
CC_Write ==
    /\ script = "collect_context" /\ pc = "cc_write"
    /\ \/ /\ lastCall' = "open_failed"
          /\ lastLog' = "error_writing"
          /\ pc' = "failed"
          /\ UNCHANGED output_file
       \/ LET ssl_certs == CollectSslCerts(cert_dir)
          IN /\ lastCall' = "open_ok"
             /\ output_file' = ContextSections \o WrittenCerts(ssl_certs)
             /\ IF CertLoopCompletes(ssl_certs)
                THEN lastLog' = "complete" /\ pc' = "done"
                ELSE lastLog' = "error_writing" /\ pc' = "failed"
    /\ UNCHANGED <<cert_dir, catalogueVars>>
    /\ UNCHANGED <<script, now>>
    /\ UNCHANGED <<session, fetches, logins, logouts>>
    /\ UNCHANGED <<tickVars, eventVars, influxVars, mainVars>>

\* ------------------------------------------------------------------ spec
\* Contents of known_events.json a run can start with.
InitialKnownFiles ==
    {KnownFile("missing", <<>>), KnownFile("invalid", <<>>),
     KnownFile("scalar", <<>>), KnownFile("object", <<"E1">>)}
    \cup {KnownFile("array", s) : s \in {<<"E1", "E2">>, <<"E2", "E2">>}}

Init ==
    /\ script \in Scripts
    /\ pc = CASE script = "log_market_data" -> "lmd_top"
              [] script = "influx_main" -> "im_config"
              [] script = "collect_context" -> "cc_start"
              [] OTHER -> "start"
    /\ now = 0
    /\ session = IF script = "log_market_data" THEN "valid" ELSE "none"
    /\ lastCall = IF script = "log_market_data" THEN "login_ok" ELSE "none"
    /\ lastLog = IF script = "log_market_data" THEN "started" ELSE "none"
    /\ fetches = 0
    /\ logins = IF script = "log_market_data" THEN 1 ELSE 0
    /\ logouts = 0
    /\ market_books = <<>>
    /\ last_data = None
    /\ output_file = <<>>
    /\ current_events = <<>>
    /\ new_events = <<>>
    /\ known_event_ids = {}
    /\ known_file \in IF script = "poll_events" THEN InitialKnownFiles
                      ELSE {KnownFile("missing", <<>>)}
    /\ loaded_ids = {}
    /\ runs = 1
    /\ terminate_event = FALSE
    /\ market_start_time \in IF script = "log_market_data" THEN StartTimes
                             ELSE {0}
    /\ points = 0
    /\ events_left = 0
    /\ log_thread = "none"
    /\ config \in Configs(script)
    /\ start_time = 0
    /\ event_start_time = 0
    /\ markets = <<>>
    /\ top_market = None
    /\ cert_dir \in IF script = "collect_context" THEN CertDirs
                    ELSE {NoCertDir}

Next ==
    \/ SessionExpires
    \/ PMB_Tick
    \/ PMB_Sleep
    \/ PMB_Interrupt
    \/ PMB_Finally
    \/ Main_Finally
    \/ PNE_Load
    \/ PNE_Tick
    \/ PNE_Save
    \/ PNE_Sleep
    \/ PNE_Except
    \/ PNE_Interrupt
    \/ Crash
    \/ Restart
    \/ LMD_Tick
    \/ LMD_Exit
    \/ LMD_Sleep
    \/ LMD_Finally
    \/ Signal
    \/ IM_FetchEvents
    \/ IM_ForEvent
    \/ PMFE_List
    \/ PMFE_Select
    \/ IM_Wait
    \/ IM_Finally
    \/ IM_Logout
    \/ IM_Config
    \/ Construct
    \/ FM_ListEvents
    \/ FM_ForEvent
    \/ FLMD_Tick
    \/ FLMD_Sleep
    \/ FLMD_Interrupt
    \/ FLMD_Finally
    \/ FM_Finally
    \/ CC_Prepare
    \/ CC_Write

Spec == Init /\ [][Next]_vars

\* The steps the interpreter takes on its own: every statement of the one
\* running thread, time.sleep included.  Signals, interrupts, the expiry of
\* the session, crashes and restarts come from outside.
ProgramStep ==
    \/ PMB_Tick
    \/ PMB_Sleep
    \/ PMB_Finally
    \/ Main_Finally
    \/ PNE_Load
    \/ PNE_Tick
    \/ PNE_Save
    \/ PNE_Sleep
    \/ PNE_Except
    \/ LMD_Tick
    \/ LMD_Exit
    \/ LMD_Sleep
    \/ LMD_Finally
    \/ IM_FetchEvents
    \/ IM_ForEvent
    \/ PMFE_List
    \/ PMFE_Select
    \/ IM_Wait
    \/ IM_Finally
    \/ IM_Logout
    \/ IM_Config
    \/ Construct
    \/ FM_ListEvents
    \/ FM_ForEvent
    \/ FLMD_Tick
    \/ FLMD_Sleep
    \/ FLMD_Finally
    \/ FM_Finally
    \/ CC_Prepare
    \/ CC_Write

\* A running process is never stopped for ever: its next statement is
\* eventually executed, remote calls and sleeps return.
LiveSpec == Spec /\ WF_vars(ProgramStep)

\* ================================================================ claims
\* The snapshot as fetched, of a recorded snapshot: the record without the
\* timestamp the loop added to it.
WithoutTimestamp(d) == [k \in DOMAIN d \ {"timestamp"} |-> d[k]]

\* A step of poll_market_book that fetched a non-empty market book.
PMB_FetchedBook ==
    /\ script = "poll_tick"
    /\ fetches' = fetches + 1
    /\ lastCall' = "fetch_ok"

\* C1: in poll_market_book, a tick after the first emission whose fetched
\* snapshot equals the snapshot recorded by the last emission appends no
\* record to the output file.
C1_SameSnapshotNotRecorded ==
    [][(/\ PMB_FetchedBook
        /\ last_data # None
        /\ market_books'[1] = WithoutTimestamp(last_data))
       => output_file' = output_file]_vars

\* C2: in poll_market_book, a tick that fetches a non-empty market book and
\* whose write does not fail appends exactly one record, the fetched
\* snapshot, when nothing was recorded yet in this run or when the fetched
\* snapshot differs from the last recorded one.
C2_FirstSeenOrChangedRecorded ==
    [][(/\ PMB_FetchedBook
        /\ lastLog' # "unexpected_error"
        /\ \/ last_data = None
           \/ market_books'[1] # WithoutTimestamp(last_data))
       => /\ Len(output_file') = Len(output_file) + 1
          /\ SubSeq(output_file', 1, Len(output_file)) = output_file
          /\ WithoutTimestamp(output_file'[Len(output_file')])
                = market_books'[1]]_vars

\* Both cases of C2 have happened: a first record, then a changed one.
C2_Witness ==
    /\ script = "poll_tick"
    /\ Len(output_file) = 2
    /\ output_file[1].x # output_file[2].x
    /\ last_data = output_file[2]

\* Ids of the records in the output file of poll_new_events.
FileIds(file) == {file[i].event_id : i \in 1..Len(file)}

\* Ids of the records a step appends to the output file.
AppendedIds ==
    {output_file'[i].event_id : i \in (Len(output_file) + 1)..Len(output_file')}

\* A step of poll_new_events whose list_events call returned events.
PNE_FetchedEvents ==
    /\ script = "poll_events"
    /\ fetches' = fetches + 1
    /\ lastCall' = "fetch_ok"

\* Every fetched id that was not loaded at start is in the output file once
\* this step is over: appended now, or known because an earlier tick of this
\* run appended it.
PNE_UnknownWritten ==
    \A id \in Range(current_events') \ loaded_ids :
        id \in AppendedIds \/ id \in known_event_ids

C4_NoRecordAgainAfterRestart ==
    [][script = "poll_events" =>
         AppendedIds \cap FileIds(output_file) = {}]_vars

\* A step in which _save_known_event_ids returned.
PNE_Saved ==
    /\ script = "poll_events"
    /\ pc = "pne_update"
    /\ pc' = "pne_sleep"

\* C5: whatever set of ids was built up in memory, _load_known_event_ids on
\* the file that _save_known_event_ids wrote returns exactly that set.
C5_SaveLoadRoundTrip ==
    [][PNE_Saved =>
         LoadKnown(known_file') =
            [raised |-> FALSE, ids |-> known_event_ids']]_vars

\* A set built with a repeated id, saved in an order other than the order
\* in which the ids were added.
C5_Witness ==
    /\ script = "poll_events"
    /\ pc = "pne_sleep"
    /\ new_events = <<"E3", "E3">>
    /\ known_event_ids = {"E1", "E2", "E3"}
    /\ known_file = KnownFile("array", <<"E3", "E1", "E2">>)

\* C6: when known_events.json is missing or is not a JSON array, the load
\* returns the empty set, raises nothing, and poll_new_events goes on to poll.
C6_LoadFailsSoft ==
    [][(/\ script = "poll_events"
        /\ pc = "pne_load"
        /\ pc' # "pne_load"
        /\ known_file.kind # "array")
       => /\ pc' = "pne_top"
          /\ known_event_ids' = {}]_vars

\* The ids a load of the file would report.
PersistedIds(file) == LoadKnown(file).ids

\* C7: within one run no id is removed from the in-memory known set or from
\* the persisted known-ids file.
C7_KnownSetOnlyGrows ==
    [][(/\ script = "poll_events"
        /\ pc \notin {"crashed", "done"}
        /\ pc' # "crashed")
       => /\ known_event_ids \subseteq known_event_ids'
          /\ PersistedIds(known_file) \subseteq PersistedIds(known_file')]_vars

\* C8: during polling an id enters the known set, in memory or on disk, only
\* when its record of this tick is in the output file, and a tick whose
\* write fails changes neither the set nor the file.
C8_KnownOnlyAfterAppend ==
    [][(script = "poll_events" /\ pc \in {"pne_top", "pne_update", "pne_except"})
       => /\ \A id \in (known_event_ids' \ known_event_ids)
                   \cup (PersistedIds(known_file') \ PersistedIds(known_file)) :
                \E i \in 1..Len(output_file) :
                    output_file[i] = EventRecord(id, now)
          /\ (pc = "pne_top" /\ lastLog' = "unexpected_error")
               => /\ known_event_ids' = known_event_ids
                  /\ known_file' = known_file]_vars

\* An id was added to the set and saved after its record was written.
C8_Witness ==
    /\ script = "poll_events"
    /\ pc = "pne_sleep"
    /\ lastLog = "saved"
    /\ loaded_ids = {}
    /\ known_event_ids = {"E2"}
    /\ PersistedIds(known_file) = {"E2"}
    /\ output_file = <<EventRecord("E2", now)>>

\* C9: in every poll loop, after a fetch failed with an authorization error
\* a re-login is attempted before the next fetch.
C9_ReloginBeforeNextFetch ==
    [][fetches' = fetches + 1 => lastCall # "fetch_403"]_vars

\* C10: in log_market_data, after a failed re-authentication the loop makes
\* no further fetch: it ends.
C10_FailedReauthEndsLoop ==
    [][(script = "log_market_data" /\ lastCall = "login_fail")
       => fetches' = fetches]_vars

\* C11: in log_market_data a fetch that fails with a 403 error makes exactly
\* one login call (handle_session_error) and writes no point, and the loop
\* goes back to its condition; a fetch that does not fail with 403 makes no
\* login call.  After a successful re-login the session is valid, so the
\* next fetch is an ordinary one.
C11_One403OneRelogin ==
    [][(script = "log_market_data" /\ fetches' = fetches + 1) =>
         IF session # "valid"
         THEN /\ logins' = logins + 1
              /\ pc' = "lmd_top"
              /\ points' = points
              /\ lastCall' = "login_ok" => session' = "valid"
         ELSE logins' = logins]_vars

\* A point has been logged by the fetch that followed the one re-login.
C11_Witness ==
    /\ script = "log_market_data"
    /\ logins = 2 /\ fetches = 2
    /\ lastCall = "fetch_ok" /\ lastLog = "logged" /\ points = 1

\* C12: in poll_market_book and poll_new_events a tick whose fetch fails
\* appends nothing to the output file and leaves the loop at its sleep, from
\* which the next tick starts.
C12_FetchErrorKeepsLoop ==
    [][(/\ script \in {"poll_tick", "poll_events"}
        /\ fetches' = fetches + 1
        /\ lastCall' \in {"fetch_err", "fetch_403"}) =>
         /\ output_file' = output_file
         /\ pc' = IF script = "poll_tick" THEN "pmb_sleep" ELSE "pne_sleep"]_vars

\* A second fetch has been made and failed, nothing recorded so far.
C12_Witness ==
    /\ script = "poll_tick" /\ pc = "pmb_sleep"
    /\ fetches = 2 /\ lastCall = "fetch_403"
    /\ last_data = None /\ output_file = <<>>

\* C13: in log_market_data a fetch error that is not a 403 error does not
\* end the loop: the loop is at its condition or its sleep afterwards.
C13_NonAuthErrorRetried ==
    [][(/\ script = "log_market_data"
        /\ fetches' = fetches + 1
        /\ lastCall' = "fetch_err") =>
         pc' \in {"lmd_top", "lmd_sleep"}]_vars

\* C14: over one run of a script logout is performed at most once.
C14_LogoutAtMostOnce == logouts <= 1

\* C15: BetfairAPI.logout returns to its caller whether client.logout()
\* succeeded or raised, on the first call and on a repeated one: control is
\* at the statement that follows the call.
C15_LogoutNeverRaises ==
    [][logouts' = logouts + 1 =>
         pc' = CASE pc \in {"pmb_finally", "pne_except"} -> "main_finally"
                 [] pc = "flmd_finally" -> "fm_for"
                 [] OTHER -> "done"]_vars

\* The second logout call of a run failed and the script ended normally.
C15_Witness == logouts = 2 /\ lastCall = "logout_fail" /\ pc = "done"

C17_NoFetchAfterTerminate ==
    [][(script = "log_market_data" /\ terminate_event) =>
         fetches' = fetches]_vars

\* The flag was set after a 403 tick, and the loop left without a fetch.
C17_Witness ==
    /\ script = "log_market_data"
    /\ terminate_event /\ pc = "lmd_finally"
    /\ fetches = 1 /\ logins = 2

\* C18: after cancellation is signalled (terminate_event set, or
\* KeyboardInterrupt caught in poll_market_book or poll_new_events) the
\* script, once it has a session, eventually ends with logout having been
\* called.
C18_CancelLeadsToLogout ==
    ((terminate_event \/ lastLog = "polling_stopped") /\ session # "none")
        ~> (pc = "done" /\ logouts >= 1)

\* log_market_data has ended after the flag was set while it slept.
C18_Witness ==
    /\ script = "log_market_data"
    /\ terminate_event /\ pc = "done" /\ logouts = 1
    /\ now = 1 /\ lastCall = "logout_ok"

\* C19: in the InfluxDB main, when main leaves the wait for the thread of an
\* event without termination being signalled, the log_market_data loop of
\* that event has made at least one fetch.
C19_LoopRunsBeforeNextEvent ==
    [][(/\ script = "influx_main"
        /\ pc = "im_wait" /\ pc' = "im_for"
        /\ ~terminate_event) => fetches >= 1]_vars

\* C20: a tick whose fetch returns an empty result appends no record and
\* writes no point.
C20_EmptyFetchWritesNothing ==
    [][(fetches' = fetches + 1 /\ lastCall' = "fetch_empty") =>
         (output_file' = output_file /\ points' = points)]_vars

\* Two ticks of log_market_data, both fetches empty, nothing written.
C20_Witness ==
    /\ script = "log_market_data"
    /\ fetches = 2 /\ lastCall = "fetch_empty" /\ lastLog = "started"
    /\ points = 0 /\ output_file = <<>>

\* C21: in poll_new_events a failure while writing to the output file does
\* not end the loop: the loop is at its sleep afterwards.
C21_WriteFailureKeepsLoop ==
    [][(/\ script = "poll_events" /\ pc = "pne_top"
        /\ lastLog' = "unexpected_error") => pc' = "pne_sleep"]_vars

C26_AppendOnly ==
    [][/\ script \in {"poll_tick", "poll_events"} =>
            /\ Len(output_file') >= Len(output_file)
            /\ SubSeq(output_file', 1, Len(output_file)) = output_file
       /\ script = "poll_tick" => Len(output_file') <= Len(output_file) + 1
       /\ script = "poll_events" =>
            /\ Len(output_file') - Len(output_file) <= Len(new_events')
            /\ \A i \in 1..(Len(output_file') - Len(output_file)) :
                 output_file'[Len(output_file) + i] =
                     EventRecord(new_events'[i], now)]_vars

\* Two emissions of poll_new_events at different ticks are in the file.
C26_Witness ==
    /\ script = "poll_events"
    /\ Len(output_file) = 2
    /\ output_file[1].timestamp = 0 /\ output_file[2].timestamp = 1

\* C30: in the first run of poll_new_events no two lines of the output file
\* carry the same event id.
C30_OneRecordPerEventId ==
    (script = "poll_events" /\ runs = 1) =>
        \A i, j \in 1..Len(output_file) :
            output_file[i].event_id = output_file[j].event_id => i = j

\* C23: in poll_market_book, poll_new_events and log_market_data a tick
\* that fetched never hands control straight back to the top of the loop:
\* the sleep (or the end of the loop) comes before the next fetch, also
\* when the fetch failed.
C23_SleepBetweenFetches ==
    [][(/\ script \in {"poll_tick", "poll_events", "log_market_data"}
        /\ fetches' = fetches + 1) =>
         pc' \notin {"pmb_top", "pne_top", "lmd_top"}]_vars

\* C28: log_market_data eventually leaves its loop once the current time
\* has reached market_start_time, or market_start_time is None.
C28_ExitsOnceStarted ==
    (/\ script = "log_market_data"
     /\ pc \in {"lmd_top", "lmd_sleep"}
     /\ (market_start_time = 0 \/ now >= market_start_time))
        ~> (pc \in {"lmd_finally", "done"})

\* C24: a script that lacks a required configuration value makes no login
\* and no fetch.
C24_ConfigCheckedBeforeLogin ==
    (script \in Processes /\ config # "ok") => (logins = 0 /\ fetches = 0)

\* C25: a script run that lacks a configuration value, or whose initial
\* login failed, ends with exit code 1; a run whose polling was cancelled
\* by KeyboardInterrupt ends with exit code 0.
C25_ExitCodes ==
    (script \in Processes /\ ExitCode(pc) # "none") =>
        /\ (config # "ok" \/ session = "none") => ExitCode(pc) = "1"
        /\ lastLog = "polling_stopped" => ExitCode(pc) = "0"

\* C27: in the file-variant main no list_market_catalogue and no
\* list_market_book call is made after logout has been called.
C27_NoFetchAfterLogout ==
    [][((FM_ForEvent /\ events_left > 0) \/ FLMD_Tick) => logouts = 0]_vars

\* C29: the file-variant log_market_data eventually leaves its loop once
\* the start time of the event has passed.
C29_StopsWhenEventStarts ==
    (/\ script = "polling_main"
     /\ pc \in {"flmd_top", "flmd_sleep"}
     /\ now >= market_start_time)
        ~> (pc \notin {"flmd_top", "flmd_sleep"})

\* C31: at the end of a tick of poll_new_events that completed, the known-ids
\* file holds every id loaded at start and, in the first run, the id of
\* every record in the output file; after a tick that emitted, the ids in
\* the file are exactly the in-memory set.
C31_PersistedCoversRun ==
    (script = "poll_events" /\ pc = "pne_sleep") =>
        /\ loaded_ids \subseteq PersistedIds(known_file)
        /\ runs = 1 => FileIds(output_file) \subseteq PersistedIds(known_file)
        /\ lastLog = "saved" => PersistedIds(known_file) = known_event_ids

\* A tick of the first run has emitted E3 on top of two loaded ids.
C31_Witness ==
    /\ script = "poll_events" /\ pc = "pne_sleep" /\ runs = 1
    /\ lastLog = "saved"
    /\ loaded_ids = {"E1", "E2"}
    /\ output_file = <<EventRecord("E3", 0)>>
    /\ PersistedIds(known_file) = {"E1", "E2", "E3"}

\* C32: poll_markets_for_event, given a catalogue, returns None when no
\* market starts within 30 minutes of the event's start time, and otherwise
\* returns a market within that tolerance whose total_matched is the
\* greatest among the markets within it.
C32_TopMarketWithinTolerance ==
    [][PMFE_Select =>
         LET v == ValidMarkets(markets, event_start_time)
         IN /\ pc' # "im_finally"
            /\ IF v = <<>> THEN top_market' = None
               ELSE /\ top_market' \in Range(v)
                    /\ \A m \in Range(v) :
                         m.total_matched <= top_market'.total_matched]_vars

\* C34: when cert_dir does not exist and the output file can be opened,
\* collect_context writes every section and the note about the missing
\* directory, and ends with exit status 0.
C34_MissingCertDirEndsNormally ==
    [][(CC_Write /\ cert_dir.state = "missing" /\ lastCall' = "open_ok") =>
         /\ output_file' = ContextSections \o <<Text("note", "missing")>>
         /\ ExitCode(pc') = "0"]_vars

\* C33: a tick of log_market_data writes at most one point, and writes one
\* only if the fetched result is non-empty and its totalMatched is positive;
\* a tick whose book has totalMatched 0 (or no such key) writes nothing,
\* logs the skip and goes on to the break tests and the sleep.
C33_PointOnlyForPositiveTotal ==
    [][LMD_Tick =>
         /\ points' \in {points, points + 1}
         /\ points' # points => WritesPoint(market_books')
         /\ (lastCall' = "fetch_ok" /\ ~WritesPoint(market_books')) =>
               /\ points' = points
               /\ lastLog' = "skipping"
               /\ pc' = AfterBook]_vars

====
